---- MODULE Spec2Model ----
(***************************************************************************)
(* Model of app/packages/core/src/components/Modal/Group/                  *)
(* GroupContextProvider.tsx: the groupContext React context (its default   *)
(* value, the useGroupContext hook and the GroupContextProvider component) *)
(* and the DatasetQuery Relay request descriptor.                          *)
(*                                                                         *)
(* The context part is a state machine over a component tree.  A render    *)
(* pass walks the mounted tree depth first; a GroupContextProvider pushes  *)
(* its value on entry and restores the previous one on exit (React's       *)
(* context stack), and a consumer's useGroupContext reads the value that   *)
(* is current when the consumer renders.  Every change of the tree is      *)
(* followed by a pass over the whole mounted tree: the provider's value is *)
(* a new object at each of its renders, so its consumers render again.     *)
(***************************************************************************)
EXTENDS Integers, Sequences, FiniteSets, TLC

\* ------------------------------------------------------------------ bounds
MaxNodes == 3
MaxCalls == 1

\* ------------------------------------------------------- component tree
Root == 0
Nodes == 1..MaxNodes
None == "none"

\* The callbacks a parent can pass as the lookerRefCallback prop, and the
\* lookers a consumer can hand to the callback it obtained.
Callbacks == {"cbA", "cbB"}
Lookers == {"looker1", "looker2"}

\* lookerRefCallback: () => {}          (the function of defaultOptions)
NoopCallback == "noop"

\* The body of the default callback, as a function of the looker and the
\* record of received lookers: it returns the record as it was.
\* (DefaultBodyAppends: a default that registers the looker instead.)
DefaultBodyAppends(looker, log) == Append(log, [callback |-> NoopCallback, looker |-> looker])
DefaultBody(looker, log) == log

\* Whether the default callback raises: an empty body cannot.
\* (DefaultRaisesMut: a default that throws.)
DefaultRaisesMut == TRUE
DefaultRaises == FALSE

\* const defaultOptions: GroupContext = { lookerRefCallback: () => {} }
defaultOptions == [lookerRefCallback |-> NoopCallback]

\* What a component that has not rendered holds: no context value at all.
NotRendered == [lookerRefCallback |-> None]

VARIABLES
  kind,          \* kind[n]: "provider" (a GroupContextProvider) or "consumer"
  parent,        \* parent[n]: the node whose children contain n
  mounted,       \* mounted[n]: n is in the rendered tree
  props,         \* props[p]: lookerRefCallback prop of provider p (None when unmounted)
  memoizedProps, \* memoizedProps[p]: the prop p had at the last finished render pass
  currentValue,  \* groupContext's current value during a render pass
  valueStack,    \* the values shadowed by the providers being rendered
  phase,         \* "idle" or "render"
  cursor,        \* the node the render pass is at
  dir,           \* "begin" (entering cursor) or "complete" (leaving it)
  held,          \* held[c]: what useGroupContext returned at c's last render
  calls,         \* the calls the prop callbacks received: <<callback, looker>>
  raised,        \* whether the latest invocation raised an error
  variables,     \* DatasetQuery: the variables of the request
  fieldArgs,     \* DatasetQuery: the arguments sent to the dataset field
  path           \* DatasetQuery: position in the selection tree

ctxVars == <<kind, parent, mounted, props, memoizedProps, currentValue, valueStack,
             phase, cursor, dir, held, calls, raised>>
queryVars == <<variables, fieldArgs, path>>
vars == <<ctxVars, queryVars>>

\* ===================================================== DatasetQuery (Relay)
Null == "null"

\* export type DatasetQuery$variables = { name: string; view?: Array | null }
\* (DatasetQuery_variables_ViewRequired: view declared like name.)
DatasetQuery_variables_ViewRequired == <<
  [name |-> "name", type |-> "string", optional |-> FALSE, nullable |-> FALSE],
  [name |-> "view", type |-> "Array", optional |-> FALSE, nullable |-> FALSE] >>
DatasetQuery_variables == <<
  [name |-> "name", type |-> "string", optional |-> FALSE, nullable |-> FALSE],
  [name |-> "view", type |-> "Array", optional |-> TRUE, nullable |-> TRUE] >>

\* A field of the response type: a scalar (no fields of its own) or an object.
TypeScalar(n, t, nullable) ==
  [name |-> n, type |-> t, nullable |-> nullable, plural |-> FALSE, fields |-> << >>]
TypeList(n, t) ==
  [name |-> n, type |-> t, nullable |-> FALSE, plural |-> TRUE, fields |-> << >>]
TypeObject(n, nullable, plural, fields) ==
  [name |-> n, type |-> "object", nullable |-> nullable, plural |-> plural,
   fields |-> fields]

\* The entry type of sampleFields and of frameFields.
SchemaFieldType == <<
  TypeScalar("ftype", "string", FALSE),
  TypeScalar("subfield", "string", TRUE),
  TypeScalar("embeddedDocType", "string", TRUE),
  TypeScalar("path", "string", FALSE),
  TypeScalar("dbField", "string", TRUE) >>

TargetType == <<
  TypeScalar("target", "number", FALSE),
  TypeScalar("value", "string", FALSE) >>

EvaluationType == <<
  TypeScalar("key", "string", FALSE),
  TypeScalar("version", "string", FALSE),
  TypeScalar("timestamp", "string", FALSE),
  TypeList("viewStages", "string"),
  TypeObject("config", FALSE, FALSE, <<
    TypeScalar("cls", "string", FALSE),
    TypeScalar("predField", "string", FALSE),
    TypeScalar("gtField", "string", FALSE) >>) >>

BrainMethodType == <<
  TypeScalar("key", "string", FALSE),
  TypeScalar("version", "string", FALSE),
  TypeScalar("timestamp", "string", FALSE),
  TypeList("viewStages", "string"),
  TypeObject("config", FALSE, FALSE, <<
    TypeScalar("cls", "string", FALSE),
    TypeScalar("embeddingsField", "string", TRUE),
    TypeScalar("method", "string", FALSE),
    TypeScalar("patchesField", "string", TRUE) >>) >>

\* export type DatasetQuery$data = { readonly dataset: {...} | null }
DatasetQuery_data == <<
  TypeObject("dataset", TRUE, FALSE, <<
    TypeScalar("id", "string", FALSE),
    TypeScalar("name", "string", FALSE),
    TypeScalar("mediaType", "MediaType", TRUE),
    TypeObject("sampleFields", FALSE, TRUE, SchemaFieldType),
    TypeObject("frameFields", FALSE, TRUE, SchemaFieldType),
    TypeObject("appSidebarGroups", TRUE, TRUE, <<
      TypeScalar("name", "string", FALSE),
      TypeList("paths", "string") >>),
    TypeObject("maskTargets", FALSE, TRUE, <<
      TypeScalar("name", "string", FALSE),
      TypeObject("targets", FALSE, TRUE, TargetType) >>),
    TypeObject("defaultMaskTargets", TRUE, TRUE, TargetType),
    TypeObject("evaluations", FALSE, TRUE, EvaluationType),
    TypeObject("brainMethods", FALSE, TRUE, BrainMethodType),
    TypeScalar("lastLoadedAt", "string", FALSE),
    TypeScalar("createdAt", "string", FALSE),
    TypeScalar("version", "string", FALSE) >>) >>

\* ------------------------------------------------ the request descriptor
LocalArgument(n) == [defaultValue |-> Null, kind |-> "LocalArgument", name |-> n]

ScalarField(n) ==
  [alias |-> Null, args |-> Null, kind |-> "ScalarField", name |-> n,
   storageKey |-> Null]

LinkedField(n, concreteType, plural, selections) ==
  [alias |-> Null, args |-> Null, concreteType |-> concreteType,
   kind |-> "LinkedField", name |-> n, plural |-> plural,
   selections |-> selections, storageKey |-> Null]

\* v0: the argument definitions.  (v0_NameOnly: view left out.)
v0_NameOnly == << LocalArgument("name") >>
v0 == << LocalArgument("name"), LocalArgument("view") >>

v1 == ScalarField("name")

\* v2: the selection set of a schema field.  (v2_NoSubfield: subfield left out.)
v2_NoSubfield == <<
  ScalarField("ftype"),
  ScalarField("embeddedDocType"),
  ScalarField("path"),
  ScalarField("dbField") >>
v2 == <<
  ScalarField("ftype"),
  ScalarField("subfield"),
  ScalarField("embeddedDocType"),
  ScalarField("path"),
  ScalarField("dbField") >>

v3 == << ScalarField("target"), ScalarField("value") >>
v4 == ScalarField("key")
v5 == ScalarField("version")
v6 == ScalarField("timestamp")
\* (v7_Stages: the stage list under another name.)
v7_Stages == ScalarField("stages")
v7 == ScalarField("viewStages")
v8 == ScalarField("cls")

\* The arguments of the dataset field.
DatasetArgs == <<
  [kind |-> "Variable", name |-> "name", variableName |-> "name"],
  [kind |-> "Variable", name |-> "view", variableName |-> "view"] >>

\* The selections of the dataset field.
\* (DatasetSelections_NoMediaType: mediaType left out.)
DatasetSelections_NoMediaType == <<
  ScalarField("id"),
  v1,
  LinkedField("sampleFields", "SampleField", TRUE, v2),
  LinkedField("frameFields", "SampleField", TRUE, v2),
  LinkedField("appSidebarGroups", "SidebarGroup", TRUE,
              << v1, ScalarField("paths") >>),
  LinkedField("maskTargets", "NamedTargets", TRUE,
              << v1, LinkedField("targets", "Target", TRUE, v3) >>),
  LinkedField("defaultMaskTargets", "Target", TRUE, v3),
  LinkedField("evaluations", "EvaluationRun", TRUE, <<
    v4, v5, v6, v7,
    LinkedField("config", "EvaluationRunConfig", FALSE,
                << v8, ScalarField("predField"), ScalarField("gtField") >>) >>),
  LinkedField("brainMethods", "BrainRun", TRUE, <<
    v4, v5, v6, v7,
    LinkedField("config", "BrainRunConfig", FALSE,
                << v8, ScalarField("embeddingsField"), ScalarField("method"),
                   ScalarField("patchesField") >>) >>),
  ScalarField("lastLoadedAt"),
  ScalarField("createdAt"),
  v5 >>
DatasetSelections == <<
  ScalarField("id"),
  v1,
  ScalarField("mediaType"),
  LinkedField("sampleFields", "SampleField", TRUE, v2),
  LinkedField("frameFields", "SampleField", TRUE, v2),
  LinkedField("appSidebarGroups", "SidebarGroup", TRUE,
              << v1, ScalarField("paths") >>),
  LinkedField("maskTargets", "NamedTargets", TRUE,
              << v1, LinkedField("targets", "Target", TRUE, v3) >>),
  LinkedField("defaultMaskTargets", "Target", TRUE, v3),
  LinkedField("evaluations", "EvaluationRun", TRUE, <<
    v4, v5, v6, v7,
    LinkedField("config", "EvaluationRunConfig", FALSE,
                << v8, ScalarField("predField"), ScalarField("gtField") >>) >>),
  LinkedField("brainMethods", "BrainRun", TRUE, <<
    v4, v5, v6, v7,
    LinkedField("config", "BrainRunConfig", FALSE,
                << v8, ScalarField("embeddingsField"), ScalarField("method"),
                   ScalarField("patchesField") >>) >>),
  ScalarField("lastLoadedAt"),
  ScalarField("createdAt"),
  v5 >>

v9 == <<
  [alias |-> Null, args |-> DatasetArgs, concreteType |-> "Dataset",
   kind |-> "LinkedField", name |-> "dataset", plural |-> FALSE,
   selections |-> DatasetSelections, storageKey |-> Null] >>

\* params.text, as its tokens in order.
\* (textMaskTargets_NoValue: a text that does not ask for a target's value.)
textMaskTargets_NoValue == <<
  "maskTargets", "{", "name", "targets", "{", "target", "}", "}" >>
textMaskTargets == <<
  "maskTargets", "{", "name", "targets", "{", "target", "value", "}", "}" >>

text ==
  << "query", "DatasetQuery", "(",
       "$", "name", ":", "String", "!",
       "$", "view", ":", "JSONArray",
     ")", "{",
     "dataset", "(", "name", ":", "$", "name", ",", "view", ":", "$", "view", ")", "{",
       "id", "name", "mediaType",
       "sampleFields", "{",
         "ftype", "subfield", "embeddedDocType", "path", "dbField", "}",
       "frameFields", "{",
         "ftype", "subfield", "embeddedDocType", "path", "dbField", "}",
       "appSidebarGroups", "{", "name", "paths", "}" >>
  \o textMaskTargets \o
  << "defaultMaskTargets", "{", "target", "value", "}",
       "evaluations", "{",
         "key", "version", "timestamp", "viewStages",
         "config", "{", "cls", "predField", "gtField", "}", "}",
       "brainMethods", "{",
         "key", "version", "timestamp", "viewStages",
         "config", "{", "cls", "embeddingsField", "method", "patchesField", "}", "}",
       "lastLoadedAt", "createdAt", "version",
     "}", "}" >>

\* const node: ConcreteRequest
node == [
  fragment |-> [argumentDefinitions |-> v0, kind |-> "Fragment", metadata |-> Null,
                name |-> "DatasetQuery", selections |-> v9, type |-> "Query",
                abstractKey |-> Null],
  kind |-> "Request",
  operation |-> [argumentDefinitions |-> v0, kind |-> "Operation",
                 name |-> "DatasetQuery", selections |-> v9],
  params |-> [cacheID |-> "33bb58955b13aadd3c3abc537b89af36", id |-> Null,
              metadata |-> << >>, name |-> "DatasetQuery",
              operationKind |-> "query", text |-> text] ]

\* ---------------------------------------------------------- tree helpers
RECURSIVE Ancestors(_)
Ancestors(n) == IF n = Root THEN {} ELSE {parent[n]} \cup Ancestors(parent[n])

Subtree(n) == {m \in Nodes : m = n \/ n \in Ancestors(m)}

ProviderAncestors(n) == {a \in Ancestors(n) : a # Root /\ kind[a] = "provider"}

\* The nearest GroupContextProvider above n; the root when there is none.
RECURSIVE NearestProvider(_)
NearestProvider(n) ==
  IF n = Root THEN Root
  ELSE IF parent[n] # Root /\ kind[parent[n]] = "provider" THEN parent[n]
  ELSE NearestProvider(parent[n])

MountedChildren(n) == {m \in Nodes : parent[m] = n /\ mounted[m]}
Min(S) == CHOOSE x \in S : \A y \in S : x <= y
LaterSiblings(n) == {m \in MountedChildren(parent[n]) : m > n}

\* ------------------------------------------------ GroupContextProvider
\* value={{ lookerRefCallback }}: the value a provider binds is a fresh
\* object holding the prop as it was received.
\* (ProviderValueStale: a provider that binds the prop of its last committed
\* render; ProviderValueWrapped: one that binds a wrapper.)
ProviderValueStale(p) ==
  [lookerRefCallback |-> IF memoizedProps[p] = None THEN props[p] ELSE memoizedProps[p]]
ProviderValueWrapped(p) == [lookerRefCallback |-> "wrapper"]
ProviderValue(p) == [lookerRefCallback |-> props[p]]

\* The calls a provider makes to its lookerRefCallback prop while rendering:
\* none, the component only passes the prop on.
\* (ProviderRenderCallsMut: a provider that calls the prop when it renders.)
ProviderRenderCallsMut(p) == <<[callback |-> props[p], looker |-> "looker1"]>>
ProviderRenderCalls(p) == << >>

\* <groupContext.Provider> on exit: the shadowed value becomes current again.
\* (RestoredValueKept: the provider's value stays current after its subtree.)
RestoredValueKept(stack, current) == current
RestoredValue(stack, current) == stack[Len(stack)]

\* export const useGroupContext = () => useContext(groupContext)
\* (useGroupContextDefault: a hook that ignores the providers.)
useGroupContextDefault == defaultOptions
useGroupContext == currentValue

\* Invoking callback cb with a looker: the default does nothing, a prop
\* callback receives the looker.
CallbackEffect(cb, looker, log) ==
  IF cb = NoopCallback THEN DefaultBody(looker, log)
  ELSE Append(log, [callback |-> cb, looker |-> looker])

TypeOK ==
  /\ kind \in [Nodes -> {"provider", "consumer"}]
  /\ parent \in [Nodes -> {Root} \cup Nodes]
  /\ mounted \in [Nodes -> BOOLEAN]
  /\ phase \in {"idle", "render"}
  /\ dir \in {"begin", "complete"}
  /\ cursor \in {Root} \cup Nodes
  /\ Len(calls) <= MaxCalls
  /\ raised \in BOOLEAN

\* ------------------------------------------------------------------ Init
\* Any tree of MaxNodes components below the root, its nodes numbered level by
\* level and siblings left to right (so a parent has a smaller number than its
\* children and parents do not decrease); nothing below the root is mounted
\* yet, and groupContext holds the default value.
CtxInit ==
  /\ kind \in [Nodes -> {"provider", "consumer"}]
  /\ parent \in {f \in [Nodes -> {Root} \cup Nodes] :
                   \A n \in Nodes : f[n] < n /\ (n > 1 => f[n - 1] <= f[n])}
  /\ mounted = [n \in Nodes |-> FALSE]
  /\ props = [n \in Nodes |-> None]
  /\ memoizedProps = [n \in Nodes |-> None]
  /\ currentValue = defaultOptions
  /\ valueStack = << >>
  /\ phase = "idle"
  /\ cursor = Root
  /\ dir = "begin"
  /\ held = [n \in Nodes |-> NotRendered]
  /\ calls = << >>
  /\ raised = FALSE

QueryIdle ==
  /\ variables = [name |-> "quickstart"]
  /\ fieldArgs = [sent |-> FALSE]
  /\ path = << >>

Init == CtxInit /\ QueryIdle

\* ------------------------------------------------------- tree operations
StartRender ==
  /\ phase' = "render"
  /\ cursor' = Root
  /\ dir' = "begin"

\* A component is mounted below a mounted parent; a provider gets its prop.
Mount(n, cb) ==
  /\ phase = "idle"
  /\ ~mounted[n]
  /\ IF parent[n] = Root THEN TRUE ELSE mounted[parent[n]]
  /\ mounted' = [mounted EXCEPT ![n] = TRUE]
  /\ props' = IF kind[n] = "provider" THEN [props EXCEPT ![n] = cb] ELSE props
  /\ StartRender
  /\ UNCHANGED <<kind, parent, memoizedProps, currentValue, valueStack, held,
                 calls, raised, queryVars>>

\* A component is unmounted together with everything below it.
Unmount(n) ==
  /\ phase = "idle"
  /\ mounted[n]
  /\ mounted' = [m \in Nodes |-> IF m \in Subtree(n) THEN FALSE ELSE mounted[m]]
  /\ props' = [m \in Nodes |-> IF m \in Subtree(n) THEN None ELSE props[m]]
  /\ held' = [m \in Nodes |-> IF m \in Subtree(n) THEN NotRendered ELSE held[m]]
  /\ StartRender
  /\ UNCHANGED <<kind, parent, memoizedProps, currentValue, valueStack, calls,
                 raised, queryVars>>

\* The parent of provider p renders it again, with the same or another
\* lookerRefCallback.
Rerender(p, cb) ==
  /\ phase = "idle"
  /\ mounted[p]
  /\ kind[p] = "provider"
  /\ props' = [props EXCEPT ![p] = cb]
  /\ StartRender
  /\ UNCHANGED <<kind, parent, mounted, memoizedProps, currentValue, valueStack, held,
                 calls, raised, queryVars>>

\* ----------------------------------------------------------- render pass
Descend(n) ==
  IF MountedChildren(n) # {}
  THEN cursor' = Min(MountedChildren(n)) /\ dir' = "begin" /\ phase' = phase
  ELSE cursor' = n /\ dir' = "complete" /\ phase' = phase

BeginRoot ==
  /\ phase = "render" /\ dir = "begin" /\ cursor = Root
  /\ Descend(Root)
  /\ UNCHANGED <<kind, parent, mounted, props, memoizedProps, currentValue,
                 valueStack, held, calls, raised, queryVars>>

\* GroupContextProvider renders: it binds its value and renders children.
BeginProvider(p) ==
  /\ phase = "render" /\ dir = "begin" /\ cursor = p
  /\ kind[p] = "provider"
  /\ valueStack' = Append(valueStack, currentValue)
  /\ currentValue' = ProviderValue(p)
  /\ calls' = calls \o ProviderRenderCalls(p)
  /\ Descend(p)
  /\ UNCHANGED <<kind, parent, mounted, props, memoizedProps, held,
                 raised, queryVars>>

\* A consumer renders and calls useGroupContext.
BeginConsumer(c) ==
  /\ phase = "render" /\ dir = "begin" /\ cursor = c
  /\ kind[c] = "consumer"
  /\ held' = [held EXCEPT ![c] = useGroupContext]
  /\ Descend(c)
  /\ UNCHANGED <<kind, parent, mounted, props, memoizedProps, currentValue,
                 valueStack, calls, raised, queryVars>>

\* Leaving a node: a provider restores the value it shadowed; the pass
\* goes on with the next sibling, or leaves the parent, or ends at the root.
Complete(n) ==
  /\ phase = "render" /\ dir = "complete" /\ cursor = n
  /\ IF n # Root /\ kind[n] = "provider"
     THEN /\ currentValue' = RestoredValue(valueStack, currentValue)
          /\ valueStack' = SubSeq(valueStack, 1, Len(valueStack) - 1)
     ELSE UNCHANGED <<currentValue, valueStack>>
  /\ IF n = Root
     THEN /\ phase' = "idle" /\ cursor' = Root /\ dir' = "begin"
          /\ memoizedProps' = props
     ELSE /\ IF LaterSiblings(n) # {}
             THEN cursor' = Min(LaterSiblings(n)) /\ dir' = "begin" /\ phase' = phase
             ELSE cursor' = parent[n] /\ dir' = "complete" /\ phase' = phase
          /\ UNCHANGED memoizedProps
  /\ UNCHANGED <<kind, parent, mounted, props, held, calls, raised, queryVars>>

\* ----------------------------------------------------------- invocation
\* A mounted consumer invokes the callback it obtained with a looker.
Invoke(c, looker) ==
  /\ phase = "idle"
  /\ mounted[c]
  /\ kind[c] = "consumer"
  /\ held[c].lookerRefCallback = NoopCallback \/ Len(calls) < MaxCalls
  /\ calls' = CallbackEffect(held[c].lookerRefCallback, looker, calls)
  /\ raised' = IF held[c].lookerRefCallback = NoopCallback THEN DefaultRaises ELSE FALSE
  /\ UNCHANGED <<kind, parent, mounted, props, memoizedProps, currentValue,
                 valueStack, phase, cursor, dir, held, queryVars>>

Next ==
  \/ \E n \in Nodes, cb \in Callbacks : Mount(n, cb)
  \/ \E n \in Nodes : Unmount(n)
  \/ \E p \in Nodes, cb \in Callbacks : Rerender(p, cb)
  \/ BeginRoot
  \/ \E p \in Nodes : BeginProvider(p)
  \/ \E c \in Nodes : BeginConsumer(c)
  \/ \E n \in {Root} \cup Nodes : Complete(n)
  \/ \E c \in Nodes, looker \in Lookers : Invoke(c, looker)

Spec == Init /\ [][Next]_vars

\* ------------------------------------------------- reading the query text
\* Variable definitions: ( $name: Type[!] ... ), read from token i on.
RECURSIVE ParseVariableDefinitions(_, _)
ParseVariableDefinitions(t, i) ==
  IF t[i] # "$" THEN [defs |-> << >>, next |-> i]
  ELSE LET nonNull == t[i + 4] = "!"
           rest == ParseVariableDefinitions(t, IF nonNull THEN i + 5 ELSE i + 4)
       IN [defs |-> << [name |-> t[i + 1], type |-> t[i + 3], nonNull |-> nonNull] >>
                    \o rest.defs,
           next |-> rest.next]

\* Arguments of a field: name: $variable, ... ), read from token i on.
RECURSIVE ParseArguments(_, _)
ParseArguments(t, i) ==
  IF t[i] = ")" THEN [args |-> << >>, next |-> i + 1]
  ELSE IF t[i] = "," THEN ParseArguments(t, i + 1)
  ELSE LET rest == ParseArguments(t, i + 4)
       IN [args |-> << [kind |-> "Variable", name |-> t[i],
                        variableName |-> t[i + 3]] >> \o rest.args,
           next |-> rest.next]

\* The fields of a selection set up to its closing brace, from token i on.
RECURSIVE ParseFields(_, _)
ParseFields(t, i) ==
  IF t[i] = "}" THEN [fields |-> << >>, next |-> i + 1]
  ELSE LET a == IF t[i + 1] = "(" THEN ParseArguments(t, i + 2)
                ELSE [args |-> << >>, next |-> i + 1]
           sel == IF t[a.next] = "{" THEN ParseFields(t, a.next + 1)
                  ELSE [fields |-> << >>, next |-> a.next]
           rest == ParseFields(t, sel.next)
       IN [fields |-> << [name |-> t[i], args |-> a.args,
                          selections |-> sel.fields] >> \o rest.fields,
           next |-> rest.next]

\* query Name ( variable definitions ) { selections }
ParseDocument(t) ==
  LET defs == ParseVariableDefinitions(t, 4)
  IN [operationKind |-> t[1],
      name |-> t[2],
      variableDefinitions |-> defs.defs,
      selections |-> ParseFields(t, defs.next + 2).fields]

Document == ParseDocument(node.params.text)

\* ------------------------------------------- the three trees, name by name
\* A tree of field names: a sequence of [name, sub] with sub the tree below.
RECURSIVE SelectionTree(_)
SelectionTree(selections) ==
  [i \in 1..Len(selections) |->
     [name |-> selections[i].name,
      sub |-> IF selections[i].kind = "LinkedField"
              THEN SelectionTree(selections[i].selections) ELSE << >>]]

RECURSIVE TextTree(_)
TextTree(fields) ==
  [i \in 1..Len(fields) |->
     [name |-> fields[i].name, sub |-> TextTree(fields[i].selections)]]

RECURSIVE TypeTree(_)
TypeTree(fields) ==
  [i \in 1..Len(fields) |->
     [name |-> fields[i].name, sub |-> TypeTree(fields[i].fields)]]

OperationTree == SelectionTree(node.operation.selections)
FragmentTree == SelectionTree(node.fragment.selections)
QueryTextTree == TextTree(Document.selections)
ResponseTree == TypeTree(DatasetQuery_data)

\* The tree below the field reached by path p (empty when p leads nowhere).
RECURSIVE TreeAt(_, _)
TreeAt(tree, p) ==
  IF p = << >> THEN tree
  ELSE LET hit == {i \in DOMAIN tree : tree[i].name = Head(p)}
       IN IF hit = {} THEN << >>
          ELSE TreeAt(tree[CHOOSE i \in hit : TRUE].sub, Tail(p))

NamesOf(tree) == [i \in 1..Len(tree) |-> tree[i].name]
Range(f) == {f[i] : i \in DOMAIN f}

\* ------------------------------------------------------ running the query
\* The values a variable of a TypeScript type can take.
ValuesOfType(type) ==
  IF type = "string" THEN {"quickstart", "cifar10"} ELSE {"[]", "[Limit]"}

\* The variables objects DatasetQuery$variables admits.
VariableInputs ==
  LET names == Range(NamesOf(DatasetQuery_variables))
      decl(n) == DatasetQuery_variables[
                   CHOOSE i \in DOMAIN DatasetQuery_variables :
                     DatasetQuery_variables[i].name = n]
      values == UNION {ValuesOfType(DatasetQuery_variables[i].type) :
                         i \in DOMAIN DatasetQuery_variables} \cup {Null}
  IN {r \in UNION {[D -> values] : D \in SUBSET names} :
        \A n \in names :
          /\ decl(n).optional \/ n \in DOMAIN r
          /\ n \in DOMAIN r =>
               \/ r[n] \in ValuesOfType(decl(n).type)
               \/ decl(n).nullable /\ r[n] = Null}

\* The operation's variables: each argument definition takes the value given
\* for it, or its defaultValue when none is given.
OperationVariables(given) ==
  LET defs == node.operation.argumentDefinitions
      def(n) == defs[CHOOSE i \in DOMAIN defs : defs[i].name = n]
  IN [n \in Range(NamesOf(defs)) |->
        IF n \in DOMAIN given THEN given[n] ELSE def(n).defaultValue]

\* The arguments of a field: each takes the value of the variable it names.
ResolveArgs(args, opVars) ==
  LET arg(n) == args[CHOOSE i \in DOMAIN args : args[i].name = n]
  IN [n \in Range(NamesOf(args)) |-> opVars[arg(n).variableName]]

NotSent == [sent |-> FALSE]

QueryStart ==
  /\ variables \in VariableInputs
  /\ fieldArgs = NotSent
  /\ path = << >>

\* The request is sent: the dataset field gets its arguments.
Fetch ==
  /\ fieldArgs = NotSent
  /\ fieldArgs' = [sent |-> TRUE,
                   args |-> ResolveArgs(node.operation.selections[1].args,
                                        OperationVariables(variables))]
  /\ UNCHANGED <<variables, path, ctxVars>>

\* The response is read along the operation's selections: into a field ...
Select(f) ==
  /\ fieldArgs.sent
  /\ f \in Range(NamesOf(TreeAt(OperationTree, path)))
  /\ path' = Append(path, f)
  /\ UNCHANGED <<variables, fieldArgs, ctxVars>>

\* ... and back out of it.
Back ==
  /\ path # << >>
  /\ path' = SubSeq(path, 1, Len(path) - 1)
  /\ UNCHANGED <<variables, fieldArgs, ctxVars>>

FieldNames ==
  {"dataset", "id", "name", "mediaType", "sampleFields", "frameFields",
   "appSidebarGroups", "maskTargets", "defaultMaskTargets", "evaluations",
   "brainMethods", "lastLoadedAt", "createdAt", "version", "ftype", "subfield",
   "embeddedDocType", "path", "dbField", "paths", "targets", "target", "value",
   "key", "timestamp", "viewStages", "config", "cls", "predField", "gtField",
   "embeddingsField", "method", "patchesField"}

QueryNext ==
  \/ Fetch
  \/ \E f \in FieldNames : Select(f)
  \/ Back

CtxIdle ==
  /\ kind = [n \in Nodes |-> "consumer"]
  /\ parent = [n \in Nodes |-> Root]
  /\ mounted = [n \in Nodes |-> FALSE]
  /\ props = [n \in Nodes |-> None]
  /\ memoizedProps = [n \in Nodes |-> None]
  /\ currentValue = defaultOptions
  /\ valueStack = << >>
  /\ phase = "idle"
  /\ cursor = Root
  /\ dir = "begin"
  /\ held = [n \in Nodes |-> NotRendered]
  /\ calls = << >>
  /\ raised = FALSE

QueryInit == CtxIdle /\ QueryStart

QuerySpec == QueryInit /\ [][QueryNext]_vars

\* ------------------------------------------------- context: properties
\* The value groupContext has for node n: the value of the nearest enclosing
\* GroupContextProvider, the default when there is none.
ExpectedValue(n) ==
  IF NearestProvider(n) = Root THEN defaultOptions
  ELSE [lookerRefCallback |-> props[NearestProvider(n)]]

Providers == {p \in Nodes : kind[p] = "provider"}
MountedConsumers == {c \in Nodes : kind[c] = "consumer" /\ mounted[c]}

\* Every mounted consumer has rendered since the latest change of the tree:
\* between passes, and at the end of a pass before it is committed.
Settled == phase = "idle" \/ (phase = "render" /\ cursor = Root /\ dir = "complete")

\* The callback provider p was last given: its prop while it is mounted, the
\* prop it had until the pass that removes it is committed.
LastCallback(p) == IF mounted[p] THEN props[p] ELSE memoizedProps[p]

\* The node is at its useGroupContext call.
Reading(c) == phase = "render" /\ dir = "begin" /\ cursor = c /\ kind[c] = "consumer"

\* The providers the render pass has entered and not yet left.
OpenProviders ==
  IF phase # "render" THEN {}
  ELSE ProviderAncestors(cursor) \cup
       {p \in Providers : p = cursor /\ dir = "complete"}

\* C1: a consumer rendered below a GroupContextProvider gets from
\* useGroupContext exactly the lookerRefCallback prop of the nearest enclosing
\* provider, and invoking what it got with a looker L makes that prop callback
\* receive L, once.
C1_NearestProviderCallback ==
  [][ /\ \A c \in Nodes :
           (Reading(c) /\ ProviderAncestors(c) # {})
             => held'[c].lookerRefCallback = props[NearestProvider(c)]
      /\ \A c \in Nodes, l \in Lookers :
           (Invoke(c, l) /\ ProviderAncestors(c) # {})
             => calls' = Append(calls, [callback |-> props[NearestProvider(c)],
                                        looker |-> l])
    ]_vars

\* A consumer under two nested providers holds the inner one's callback, which
\* differs from the outer one's, and has invoked it.
C1_Witness ==
  \E c \in MountedConsumers :
    /\ phase = "idle"
    /\ Cardinality(ProviderAncestors(c)) = 2
    /\ \E q \in ProviderAncestors(c) : props[q] # props[NearestProvider(c)]
    /\ held[c].lookerRefCallback = props[NearestProvider(c)]
    /\ Len(calls) = 1
    /\ calls[1].callback = held[c].lookerRefCallback

\* C2: without a GroupContextProvider among its ancestors a consumer gets the
\* default callback, and invoking the default callback with any looker
\* changes nothing, registers nothing and raises nothing.
C2_DefaultIsNoop ==
  [][ /\ \A c \in Nodes :
           (Reading(c) /\ ProviderAncestors(c) = {}) => held'[c] = defaultOptions
      /\ \A c \in Nodes, l \in Lookers :
           (Invoke(c, l) /\ ProviderAncestors(c) = {})
             => /\ held[c] = defaultOptions
                /\ calls' = calls
                /\ raised' = FALSE
                /\ UNCHANGED <<kind, parent, mounted, props, memoizedProps,
                               currentValue, valueStack, phase, cursor, dir, held>>
    ]_vars

\* A consumer outside every provider holds the default while a provider with a
\* callback is mounted elsewhere and a prop callback has already been called.
C2_Witness ==
  \E c \in MountedConsumers :
    /\ phase = "idle"
    /\ ProviderAncestors(c) = {}
    /\ held[c] = defaultOptions
    /\ \E p \in Providers : mounted[p] /\ props[p] \in Callbacks
    /\ Len(calls) = 1
    /\ ~raised

\* C3 as stated: a consumer outside the subtree of a provider, or rendering
\* after that provider was unmounted, holds the default callback.
C3_OutsideGetsDefault ==
  Settled =>
    \A p \in Providers, c \in MountedConsumers :
      (LastCallback(p) # None /\ (~mounted[p] \/ p \notin Ancestors(c)))
        => held[c] = defaultOptions

\* C3 amended: such a consumer holds the value of its own nearest enclosing
\* provider, which is another provider, and the default when it has none.
C3_OutsideUnaffected ==
  Settled =>
    \A p \in Providers, c \in MountedConsumers :
      (LastCallback(p) # None /\ (~mounted[p] \/ p \notin Ancestors(c)))
        => /\ NearestProvider(c) # p
           /\ held[c] = ExpectedValue(c)
           /\ ProviderAncestors(c) = {} => held[c] = defaultOptions

\* A provider that had a callback is being unmounted while a consumer outside
\* every provider has rendered again and holds the default.
C3_Witness ==
  /\ phase = "render" /\ cursor = Root /\ dir = "complete"
  /\ \E p \in Providers, c \in MountedConsumers :
       /\ ~mounted[p]
       /\ memoizedProps[p] \in Callbacks
       /\ ProviderAncestors(c) = {}
       /\ c > p
       /\ held[c] = defaultOptions

C9_PropagationOnly ==
  [][ /\ phase = "render" => /\ calls' = calls
                             /\ UNCHANGED <<kind, parent, mounted, props>>
      /\ phase' = "render" => calls' = calls
      /\ \A p \in Providers :
           (phase = "render" /\ dir = "begin" /\ cursor = p)
             => currentValue'.lookerRefCallback = props[p]
      /\ calls' # calls =>
           \E c \in MountedConsumers, l \in Lookers :
             /\ Invoke(c, l)
             /\ held[c].lookerRefCallback \in Callbacks
             /\ calls' = Append(calls, [callback |-> held[c].lookerRefCallback,
                                        looker |-> l])
    ]_vars

\* A provider is being rendered again, with a consumer below it, after a
\* consumer invoked the callback: the call record still has that one call.
C9_Witness ==
  /\ phase = "render"
  /\ Len(valueStack) = 1
  /\ Len(calls) = 1
  /\ \E p \in OpenProviders : currentValue.lookerRefCallback = props[p]
  /\ kind[cursor] = "consumer"
\* -------------------------------------------------- DatasetQuery: properties
\* The selection called n among the selections of the dataset field.
DatasetField(n) ==
  LET sel == node.operation.selections[1].selections
  IN sel[CHOOSE i \in DOMAIN sel : sel[i].name = n]

\* The field called n of the dataset object of the response type.
DatasetTypeField(n) ==
  LET fields == DatasetQuery_data[1].fields
  IN fields[CHOOSE i \in DOMAIN fields : fields[i].name = n]

\* C5: the request takes exactly the variables name and view; name is
\* required and not null, view may be left out or null and is then null; both
\* reach the dataset field under their own names; the variables type, the
\* argument definitions and the query text declare the same variables.
C5_VariablesContract ==
  LET defs == node.operation.argumentDefinitions
      inText == Document.variableDefinitions
      inType == DatasetQuery_variables
      args == node.operation.selections[1].args
  IN /\ NamesOf(inType) = <<"name", "view">>
     /\ NamesOf(defs) = NamesOf(inType)
     /\ NamesOf(inText) = NamesOf(inType)
     /\ \A i \in DOMAIN defs :
          defs[i].kind = "LocalArgument" /\ defs[i].defaultValue = Null
     /\ ~inType[1].optional /\ ~inType[1].nullable /\ inText[1].nonNull
     /\ inType[2].optional /\ inType[2].nullable /\ ~inText[2].nonNull
     /\ NamesOf(args) = NamesOf(inType)
     /\ \A i \in DOMAIN args :
          args[i].kind = "Variable" /\ args[i].variableName = args[i].name
     /\ Document.selections[1].args = args
     /\ "name" \in DOMAIN variables /\ variables["name"] # Null
     /\ fieldArgs.sent =>
          /\ DOMAIN fieldArgs.args = {"name", "view"}
          /\ fieldArgs.args["name"] = variables["name"]
          /\ fieldArgs.args["view"] =
               IF "view" \in DOMAIN variables THEN variables["view"] ELSE Null

\* The request was sent without a view, and the dataset field got view null.
C5_Witness ==
  /\ fieldArgs.sent
  /\ "view" \notin DOMAIN variables
  /\ fieldArgs.args["view"] = Null
  /\ fieldArgs.args["name"] = "cifar10"

ListedDatasetFields ==
  <<"id", "name", "mediaType", "sampleFields", "frameFields", "appSidebarGroups",
    "maskTargets", "defaultMaskTargets", "evaluations", "brainMethods">>

\* C6 as stated: the fields selected on, and returned for, the dataset are
\* the ten listed ones.
C6_DatasetFieldsAreListed ==
  path = <<"dataset">> =>
    /\ Range(NamesOf(TreeAt(OperationTree, path))) = Range(ListedDatasetFields)
    /\ Range(NamesOf(TreeAt(ResponseTree, path))) = Range(ListedDatasetFields)

\* C6 amended: the ten listed fields are selected on the dataset, and the
\* fields selected and returned are these followed by lastLoadedAt, createdAt
\* and version.
C6_DatasetFieldsListedAndThree ==
  path = <<"dataset">> =>
    /\ NamesOf(TreeAt(OperationTree, path))
         = ListedDatasetFields \o <<"lastLoadedAt", "createdAt", "version">>
    /\ NamesOf(TreeAt(ResponseTree, path)) = NamesOf(TreeAt(OperationTree, path))
    /\ Range(ListedDatasetFields) \subseteq Range(NamesOf(TreeAt(OperationTree, path)))

\* The response is being read at the dataset field.
C6_Witness == fieldArgs.sent /\ path = <<"dataset">>

RunFields == <<"key", "version", "timestamp", "viewStages", "config">>

\* C7: an evaluation run and a brain-method run each have key, version,
\* timestamp, viewStages and config; an evaluation config has cls, predField
\* and gtField, a brain-method config cls, embeddingsField, method and
\* patchesField; the four other fields are the same selections in both.
C7_RunRecords ==
  /\ \A run \in {"evaluations", "brainMethods"} :
       path = <<"dataset", run>> =>
         /\ NamesOf(TreeAt(OperationTree, path)) = RunFields
         /\ NamesOf(TreeAt(ResponseTree, path)) = RunFields
         /\ SubSeq(DatasetField("evaluations").selections, 1, 4)
              = SubSeq(DatasetField("brainMethods").selections, 1, 4)
         /\ SubSeq(DatasetTypeField("evaluations").fields, 1, 4)
              = SubSeq(DatasetTypeField("brainMethods").fields, 1, 4)
  /\ path = <<"dataset", "evaluations", "config">> =>
       /\ NamesOf(TreeAt(OperationTree, path)) = <<"cls", "predField", "gtField">>
       /\ NamesOf(TreeAt(ResponseTree, path)) = <<"cls", "predField", "gtField">>
  /\ path = <<"dataset", "brainMethods", "config">> =>
       /\ NamesOf(TreeAt(OperationTree, path))
            = <<"cls", "embeddingsField", "method", "patchesField">>
       /\ NamesOf(TreeAt(ResponseTree, path))
            = <<"cls", "embeddingsField", "method", "patchesField">>

\* The response is being read at the config of a brain-method run.
C7_Witness == fieldArgs.sent /\ path = <<"dataset", "brainMethods", "config">>

\* C8: an entry of sampleFields and of frameFields has its type (ftype), its
\* subfield, its embedded-document type and its path; the two lists use the
\* same selection set and have the same entry type.
C8_SchemaFieldEntries ==
  \A list \in {"sampleFields", "frameFields"} :
    path = <<"dataset", list>> =>
      /\ {"ftype", "subfield", "embeddedDocType", "path"}
           \subseteq Range(NamesOf(TreeAt(OperationTree, path)))
      /\ {"ftype", "subfield", "embeddedDocType", "path"}
           \subseteq Range(NamesOf(TreeAt(ResponseTree, path)))
      /\ DatasetField("sampleFields").selections
           = DatasetField("frameFields").selections
      /\ DatasetTypeField("sampleFields").fields
           = DatasetTypeField("frameFields").fields
      /\ NamesOf(TreeAt(ResponseTree, path)) = NamesOf(TreeAt(OperationTree, path))

\* The response is being read at an entry of frameFields.
C8_Witness == fieldArgs.sent /\ path = <<"dataset", "frameFields">>

\* C10: fragment, operation and text describe one query.  Fragment and
\* operation have the same argument definitions and selections; fragment,
\* operation, params and the text are named DatasetQuery and the kind is
\* query; the fields of the text, of the operation and of the response type
\* are the same tree, at the field being read and as a whole.
C10_OneQuery ==
  /\ node.fragment.argumentDefinitions = node.operation.argumentDefinitions
  /\ node.fragment.selections = node.operation.selections
  /\ node.fragment.name = "DatasetQuery"
  /\ node.operation.name = "DatasetQuery"
  /\ node.params.name = "DatasetQuery"
  /\ Document.name = "DatasetQuery"
  /\ node.params.operationKind = "query"
  /\ Document.operationKind = node.params.operationKind
  /\ NamesOf(TreeAt(QueryTextTree, path)) = NamesOf(TreeAt(OperationTree, path))
  /\ NamesOf(TreeAt(ResponseTree, path)) = NamesOf(TreeAt(OperationTree, path))
  /\ QueryTextTree = OperationTree
  /\ FragmentTree = OperationTree
  /\ ResponseTree = OperationTree

\* The response is being read three levels down, at the targets of a mask.
C10_Witness == fieldArgs.sent /\ path = <<"dataset", "maskTargets", "targets">>
====
